---- MODULE Spec2Model ----
(***************************************************************************)
(* Model of the inference cells of grounding-sam2.ipynb: detection         *)
(* (Grounding Dino), box conversion, the crop loop (area filter, SAM2      *)
(* mask, masked crop, save under tempdir/) and the classification loop     *)
(* over glob('tempdir/*.png').                                             *)
(*                                                                         *)
(* Normalized box components are rationals k/Den; pixel values are         *)
(* integers.  Arithmetic is exact: float32 rounding of the tensor          *)
(* products is not modelled.                                               *)
(***************************************************************************)
EXTENDS Integers, Sequences, FiniteSets, TLC

\* ---------------------------------------------------------------- bounds
\* resolution of the normalized coordinates the detector returns (k/Den)
Den == 4
\* most detections the detector returns for one image
MaxDet == 2

\* ---------------------------------------------------------------- inputs
\* (h, w) of image_source.shape
ImageShapes == {<<4, 6>>, <<4, 4>>}

\* IMAGE_PATH = "IMG_6509.png", without its extension
IMAGE_BASE == "IMG_6509"

\* detector boxes (cx, cy, w, h), each component in units of 1/Den:
\* interior, quarter of the image, most of the image, zero width,
\* overhanging the left, right and top edges.
DetectorBoxes ==
  { <<2, 2, 1, 1>>, <<2, 2, 2, 2>>, <<2, 2, 3, 3>>, <<2, 2, 0, 2>>,
    <<0, 2, 2, 2>>, <<4, 2, 2, 2>>, <<2, 0, 1, 2>> }

DetectionLists ==
  UNION { [1..n -> DetectorBoxes] : n \in 0..MaxDet }

\* `image` is the second value load_image returns (the detector's input
\* tensor), later rebound to a cv2 array by the classification loop.  Its
\* .size attribute is decided by the library object, not by this notebook:
\* a bound method (torch.Tensor) or an element count (numpy) are not
\* iterable; an image-style object gives (width, height), of the source
\* image or of the copy load_image resized for the detector (here twice
\* the source).
NotIterable == "NotIterable"

SizeAttrs(h, w) == { NotIterable, <<w, h>>, <<2 * w, 2 * h>> }

VARIABLES
  pc,            \* which cell runs next
  image_source,  \* <<h, w>> of the loaded array
  image,         \* the .size attribute of the object bound to `image`
  boxes,         \* detector boxes; scaled to pixels by the conversion cell
  xyxy,          \* pixel boxes <<x1, y1, x2, y2>>
  idx,           \* enumerate() index of the crop loop (0-based)
  tempdir,       \* names of the files under tempdir/
  empties,       \* files under tempdir/ a failed save left without an image
  written,       \* names masked_object.save has ever completed on
  segmented,     \* indices passed to sam2_predictor.predict in this run
  crops,         \* <<index, rectangle cut by [y1:y2, x1:x2], path>> per crop
  saved,         \* paths masked_object.save completed on in this run
  images,        \* result of glob.glob('tempdir/*.png')
  results,       \* paths the classifier answered for in this run
  error          \* exception that stopped the current cell, or "none"

vars == << pc, image_source, image, boxes, xyxy, idx,
           tempdir, empties, written, segmented, crops, saved, images, results, error >>

\* ------------------------------------------------------------ arithmetic
\* rounding toward minus infinity instead of toward zero
TruncAsFloor(n, d) == n \div d

\* astype(int): truncation toward zero of n/d, d > 0
Trunc(n, d) == IF n >= 0 THEN n \div d ELSE -((-n) \div d)

Min(a, b) == IF a <= b THEN a ELSE b
Max(a, b) == IF a >= b THEN a ELSE b

\* boxes * torch.Tensor([w, h, w, h]), still in units of 1/Den
ScaleBox(b, h, w) == << b[1] * w, b[2] * h, b[3] * w, b[4] * h >>

\* box_convert(in_fmt="cxcywh", out_fmt="xyxy") then .astype(int):
\* x1 = cx - 0.5*w, y1 = cy - 0.5*h, x2 = cx + 0.5*w, y2 = cy + 0.5*h
BoxConvert(s) ==
  << Trunc(2 * s[1] - s[3], 2 * Den), Trunc(2 * s[2] - s[4], 2 * Den),
     Trunc(2 * s[1] + s[3], 2 * Den), Trunc(2 * s[2] + s[4], 2 * Den) >>

\* an empty batch gives one all-zero row instead of none
ConvertAllPadded(bs) ==
  IF bs = << >> THEN << << 0, 0, 0, 0 >> >>
  ELSE [ i \in 1..Len(bs) |-> BoxConvert(bs[i]) ]

ConvertAll(bs) == [ i \in 1..Len(bs) |-> BoxConvert(bs[i]) ]

\* ------------------------------------------------------------- crop loop
\* math.prod(image.size); the caller has excluded NotIterable
MathProd(sz) == sz[1] * sz[2]

Area(bbox) == (bbox[3] - bbox[1]) * (bbox[4] - bbox[2])

\* the comparison written with <= instead of <
PassesFilterInclusive(bbox, sz) == 4 * Area(bbox) <= MathProd(sz)

\* (x2-x1)*(y2-y1) < 0.25 * math.prod(image.size)
PassesFilter(bbox, sz) == 4 * Area(bbox) < MathProd(sz)

\* one axis of a basic slice [lo:hi] over n elements: a negative bound
\* counts from the end, then both bounds are limited to 0..n
SliceBound(k, n) == IF k < 0 THEN Max(k + n, 0) ELSE Min(k, n)

SliceAxis(lo, hi, n) == << SliceBound(lo, n), SliceBound(hi, n) >>

\* np.where(...)[y1:y2, x1:x2] on an array of shape (h, w, 3):
\* <<first row, end row, first column, end column>>
CropRect(bbox, shape) ==
  SliceAxis(bbox[2], bbox[4], shape[1]) \o SliceAxis(bbox[1], bbox[3], shape[2])

IsEmptyRect(r) == r[2] <= r[1] \/ r[4] <= r[3]

\* the index counted from one
ImagePathOneBased(base, i) == << base, i + 1 >>

\* the index left out of the name
ImagePathNoIndex(base, i) == << base, 0 >>

\* f'tempdir/{os.path.splitext(IMAGE_PATH)[0]}_{idx}.png'
ImagePath(base, i) == << base, i >>

\* os.makedirs('tempdir', exist_ok=True): an existing directory keeps its files
Makedirs(dir) == dir

\* ---------------------------------------------------------------- cells
Init ==
  /\ pc = "idle"
  /\ image_source = << 0, 0 >>
  /\ image = NotIterable
  /\ boxes = << >>
  /\ xyxy = << >>
  /\ idx = 0
  /\ tempdir = {}
  /\ empties = {}
  /\ written = {}
  /\ segmented = {}
  /\ crops = << >>
  /\ saved = {}
  /\ images = {}
  /\ results = {}
  /\ error = "none"

\* the inference cell: load_image and predict
LoadAndPredict ==
  /\ pc = "idle"
  /\ \E shape \in ImageShapes, dets \in DetectionLists :
       /\ image_source' = shape
       /\ \E sz \in SizeAttrs(shape[1], shape[2]) : image' = sz
       /\ boxes' = dets
  /\ xyxy' = << >>
  /\ idx' = 0
  /\ segmented' = {}
  /\ crops' = << >>
  /\ saved' = {}
  /\ images' = {}
  /\ results' = {}
  /\ error' = "none"
  /\ pc' = "loaded"
  /\ UNCHANGED << tempdir, empties, written >>

\* makedirs, then the box conversion cell
ConvertBoxes ==
  /\ pc = "loaded"
  /\ tempdir' = Makedirs(tempdir)
  /\ LET h == image_source[1]
         w == image_source[2]
         scaled == [ i \in 1..Len(boxes) |-> ScaleBox(boxes[i], h, w) ]
     IN /\ boxes' = scaled
        /\ xyxy' = ConvertAll(scaled)
  /\ idx' = 0
  /\ pc' = "cropping"
  /\ UNCHANGED << image_source, image, empties, written, segmented, crops,
                  saved, images, results, error >>

\* the loop has another element
LoopHasNext == idx < Len(xyxy)

\* evaluating the filter condition raises: math.prod of a non-iterable
FilterRaises ==
  /\ pc = "cropping" /\ LoopHasNext
  /\ image = NotIterable
  /\ error' = "TypeError"
  /\ pc' = "failed"
  /\ UNCHANGED << image_source, image, boxes, xyxy, idx,
                  tempdir, empties, written, segmented, crops, saved, images, results >>

\* the box fails the condition: nothing else happens in this iteration
FilterSkips ==
  /\ pc = "cropping" /\ LoopHasNext
  /\ image # NotIterable
  /\ ~ PassesFilter(xyxy[idx + 1], image)
  /\ idx' = idx + 1
  /\ UNCHANGED << pc, image_source, image, boxes, xyxy,
                  tempdir, empties, written, segmented, crops, saved, images, results, error >>

\* predict, mask, crop and save for a box that passes the condition
SegmentCropSave ==
  /\ pc = "cropping" /\ LoopHasNext
  /\ image # NotIterable
  /\ PassesFilter(xyxy[idx + 1], image)
  /\ LET rect == CropRect(xyxy[idx + 1], image_source)
         path == ImagePath(IMAGE_BASE, idx)
     IN /\ segmented' = segmented \cup {idx}
        /\ crops' = Append(crops, << idx, rect, path >>)
        /\ IF IsEmptyRect(rect)
             THEN \* an image with a zero side cannot be encoded as PNG: the
                  \* call raises.  save() has opened (truncated) the file by
                  \* then; it removes a file it has created itself, in the
                  \* Pillow versions that clean up after a failed save.
                  /\ error' = "SaveError"
                  /\ pc' = "failed"
                  /\ \/ /\ tempdir' = tempdir \cup {path}
                        /\ empties' = empties \cup {path}
                     \/ /\ path \notin tempdir
                        /\ UNCHANGED << tempdir, empties >>
                  /\ UNCHANGED << idx, saved, written >>
             ELSE /\ tempdir' = tempdir \cup {path}
                  /\ empties' = empties \ {path}
                  /\ saved' = saved \cup {path}
                  /\ written' = written \cup {path}
                  /\ idx' = idx + 1
                  /\ UNCHANGED << pc, error >>
  /\ UNCHANGED << image_source, image, boxes, xyxy,
                  images, results >>

\* the classification cell placed inside the loop body
LoopExhaustedOrNot == TRUE

\* the for loop has consumed every element of xyxy
LoopExhausted == ~ LoopHasNext

\* the crop cell is over; the classification cell globs the directory
GlobCrops ==
  /\ pc = "cropping" /\ LoopExhausted
  /\ images' = tempdir
  /\ pc' = "classifying"
  /\ UNCHANGED << image_source, image, boxes, xyxy, idx,
                  tempdir, empties, written, segmented, crops, saved, results, error >>

\* one iteration of `for path in images`: chat(), then `image` is rebound
\* to the cv2 array of the crop, whose .size is an element count
ClassifyOne ==
  /\ pc = "classifying"
  /\ \E path \in images \ results :
       /\ path \notin empties
       /\ results' = results \cup {path}
  /\ image' = NotIterable
  /\ UNCHANGED << pc, image_source, boxes, xyxy, idx,
                  tempdir, empties, written, segmented, crops, saved, images, error >>

\* the iteration meets a file without an image: cv2.imread gives None and
\* cv2.cvtColor raises before the answer is printed
ClassifyRaises ==
  /\ pc = "classifying"
  /\ \E path \in images \ results : path \in empties
  /\ error' = "ImreadError"
  /\ pc' = "failed"
  /\ UNCHANGED << image_source, image, boxes, xyxy, idx, tempdir, empties,
                  written, segmented, crops, saved, images, results >>

ClassifyDone ==
  /\ pc = "classifying"
  /\ images \subseteq results
  /\ pc' = "done"
  /\ UNCHANGED << image_source, image, boxes, xyxy, idx,
                  tempdir, empties, written, segmented, crops, saved, images, results, error >>

\* The notebook session ends, normally or on the exception: every name of
\* the kernel is gone, the files under tempdir/ stay for the next session.
EndSession ==
  /\ pc \in {"done", "failed"}
  /\ pc' = "idle"
  /\ image_source' = << 0, 0 >>
  /\ image' = NotIterable
  /\ boxes' = << >>
  /\ xyxy' = << >>
  /\ idx' = 0
  /\ segmented' = {}
  /\ crops' = << >>
  /\ saved' = {}
  /\ images' = {}
  /\ results' = {}
  /\ error' = "none"
  /\ UNCHANGED << tempdir, empties, written >>

Next ==
  \/ LoadAndPredict
  \/ ConvertBoxes
  \/ FilterRaises
  \/ FilterSkips
  \/ SegmentCropSave
  \/ GlobCrops
  \/ ClassifyOne
  \/ ClassifyRaises
  \/ ClassifyDone
  \/ EndSession

Spec == Init /\ [][Next]_vars

\* ================================================================ claims
\* the box the crop loop is about to take, and what one iteration did
AtBox == pc = "cropping" /\ idx < Len(xyxy)
BoxArea == (xyxy[idx + 1][3] - xyxy[idx + 1][1])
             * (xyxy[idx + 1][4] - xyxy[idx + 1][2])
SourceArea == image_source[1] * image_source[2]
SizeProduct == image[1] * image[2]
Retains ==
  /\ segmented' = segmented \cup {idx}
  /\ Len(crops') = Len(crops) + 1
  /\ << IMAGE_BASE, idx >> \in tempdir'
Rejects ==
  /\ segmented' = segmented
  /\ crops' = crops
  /\ tempdir' = tempdir
  /\ idx' = idx + 1
  /\ error' = "none"

\* C1 (as stated): when the filter condition is evaluated against the area
\* of the source image, a box whose area is exactly 25% of it is retained
\* (segmented, cropped, artifact written), and a box is rejected only when
\* its area is strictly greater than 25%.
C1_QuarterBoxRetained ==
  [][ (AtBox /\ image # NotIterable /\ SizeProduct = SourceArea)
        => /\ (4 * BoxArea = SourceArea => Retains)
           /\ (4 * BoxArea > SourceArea => Rejects) ]_vars

\* C1 (amended): a box is retained only when its area is strictly less
\* than 25% of math.prod(image.size); a box at exactly 25% is not retained
\* (no segmenter call, no crop, no file), nor is any larger one.
C1_StrictlyBelowQuarter ==
  [][ (AtBox /\ (image = NotIterable \/ 4 * BoxArea >= SizeProduct))
        => /\ segmented' = segmented
           /\ crops' = crops
           /\ tempdir' = tempdir
           /\ saved' = saved ]_vars

\* a box at exactly 25% of math.prod(image.size) has just been rejected
C1_Witness ==
  /\ pc = "cropping" /\ idx = 1 /\ image # NotIterable
  /\ 4 * (xyxy[1][3] - xyxy[1][1]) * (xyxy[1][4] - xyxy[1][2]) = SizeProduct
  /\ SizeProduct = SourceArea
  /\ segmented = {} /\ crops = << >> /\ error = "none"

\* C2: a Pixel Box is rejected (no segmenter call, no crop, no file) exactly
\* when (x2-x1)*(y2-y1) >= 0.25 * W*H, W and H being the width and height
\* of the source image the boxes were scaled to; every other box proceeds
\* to segmentation and cropping.
C2_RejectsAgainstSourceArea ==
  [][ AtBox
        => IF 4 * BoxArea >= SourceArea
             THEN Rejects
             ELSE /\ segmented' = segmented \cup {idx}
                  /\ Len(crops') = Len(crops) + 1 ]_vars

\* n/d truncated toward zero is v (d > 0)
IsTruncation(v, n, d) ==
  /\ n >= 0 => (v >= 0 /\ d * v <= n /\ n < d * (v + 1))
  /\ n <= 0 => (v <= 0 /\ d * v >= n /\ n > d * (v - 1))

\* the normalized box b = (cx, cy, w, h)/Den and the pixel box o on a W x H image
IsPixelBoxOf(o, b, W, H) ==
  /\ IsTruncation(o[1], (2 * b[1] - b[3]) * W, 2 * Den)
  /\ IsTruncation(o[2], (2 * b[2] - b[4]) * H, 2 * Den)
  /\ IsTruncation(o[3], (2 * b[1] + b[3]) * W, 2 * Den)
  /\ IsTruncation(o[4], (2 * b[2] + b[4]) * H, 2 * Den)
  /\ o[1] <= o[3] /\ o[2] <= o[4]

\* every centre and extent 0, 1/Den, ..., 1, the same on both axes (the
\* conversion treats the axes separately)
GridBoxes == { << c, c, e, e >> : c \in 0..Den, e \in 0..Den }

\* C7: the conversion cell turns every normalized box (cx,cy,w,h) into
\* x1 = trunc((cx-w/2)*W), y1 = trunc((cy-h/2)*H), x2 = trunc((cx+w/2)*W),
\* y2 = trunc((cy+h/2)*H) with truncation toward zero, x1 <= x2, y1 <= y2,
\* one output box per detection, in the input order.  The conversion of
\* the detected boxes is checked on the step of the conversion cell, and
\* the conversion itself on every centre and extent of the grid for the
\* image at hand.
C7_BoxNormalizer ==
  [][ (pc = "loaded" /\ pc' = "cropping")
        => LET H == image_source[1]
               W == image_source[2]
           IN /\ Len(xyxy') = Len(boxes)
              /\ \A i \in 1..Len(boxes) :
                   IsPixelBoxOf(xyxy'[i], boxes[i], W, H)
              /\ \A b \in GridBoxes :
                   IsPixelBoxOf(BoxConvert(ScaleBox(b, H, W)), b, W, H) ]_vars

\* two boxes were converted, one of them with a negative, fractional x1
C7_Witness ==
  /\ pc = "cropping" /\ Len(xyxy) = 2 /\ xyxy[1] # xyxy[2]
  /\ \E i \in 1..2 :
       /\ 2 * boxes[i][1] - boxes[i][3] < 0
       /\ (boxes[i][3] - 2 * boxes[i][1]) % (2 * Den) # 0
       /\ xyxy[i][1] < 0

\* C8: with zero detections the conversion yields an empty list and the
\* crop loop runs zero iterations, calls the segmenter zero times, writes
\* no file and raises nothing: neither the filter condition nor the save
\* stops the run.
C8_EmptyInput ==
  (pc \in {"cropping", "classifying", "done", "failed"} /\ boxes = << >>)
    => /\ xyxy = << >>
       /\ idx = 0
       /\ segmented = {}
       /\ crops = << >>
       /\ saved = {}
       /\ error \notin {"TypeError", "SaveError"}

\* a run over zero detections has left the crop loop, although `image` is
\* an object whose size math.prod cannot take
C8_Witness ==
  /\ pc = "classifying" /\ image = NotIterable
  /\ boxes = << >> /\ xyxy = << >> /\ saved = {} /\ error = "none"

\* C3: for every Pixel Box partially outside the image (x1 < 0, y1 < 0,
\* x2 > W or y2 > H) the crop [y1:y2, x1:x2] is the intersection of the box
\* with the image rectangle, and no error is raised.
C3_CropClampedToImage ==
  \A k \in 1..Len(crops) :
    LET b == xyxy[crops[k][1] + 1]
        r == crops[k][2]
        H == image_source[1]
        W == image_source[2]
    IN (b[1] < 0 \/ b[2] < 0 \/ b[3] > W \/ b[4] > H)
         => /\ r = << Max(0, b[2]), Min(H, b[4]), Max(0, b[1]), Min(W, b[3]) >>
            /\ ~ (k = Len(crops) /\ error # "none")

\* C4: a detection whose crop rectangle is empty is detected and skipped:
\* no artifact file is written for it, no error is raised, and the loop
\* goes on to the next detection.
C4_EmptyCropSkipped ==
  \A k \in 1..Len(crops) :
    LET r == crops[k][2]
    IN (r[2] <= r[1] \/ r[4] <= r[3])
         => /\ error = "none"
            /\ crops[k][3] \notin tempdir
            /\ (pc = "cropping" => idx > crops[k][1])

\* C5: after the crop loop has finished, the files it wrote are exactly
\* {basename}_{i}.png for the detections i that passed the filter, i being
\* the position in the detector output: none for a rejected detection, one
\* for a retained one.
C5_ArtifactsPerRun ==
  pc \in {"classifying", "done"}
    => /\ saved = { << IMAGE_BASE, i >> : i \in segmented }
       /\ Cardinality(saved) = Cardinality(segmented)
       /\ Len(crops) = Cardinality(segmented)
       /\ \A k \in 1..Len(crops) : crops[k][3] = << IMAGE_BASE, crops[k][1] >>
       /\ saved \subseteq tempdir
       /\ (results = {} /\ image # NotIterable)
            => segmented =
                 { i \in 0..(Len(xyxy) - 1) :
                     4 * (xyxy[i + 1][3] - xyxy[i + 1][1])
                       * (xyxy[i + 1][4] - xyxy[i + 1][2]) < SizeProduct }
       /\ (results = {} /\ image = NotIterable) => xyxy = << >>

\* the first detection was rejected and the second retained: the one file
\* of the run carries index 1
C5_Witness ==
  /\ pc = "classifying" /\ results = {}
  /\ Len(xyxy) = 2 /\ segmented = {1}
  /\ saved = { << IMAGE_BASE, 1 >> }

\* C6: the classifier step of a run produces exactly one Classification
\* Result per detection retained in that run and none for anything else,
\* whatever earlier runs left behind.
C6_ResultsOfThisRunOnly ==
  pc = "done" => results = saved

\* C9 (as stated): the classifier call for a surviving detection i comes
\* before the segmenter call for every later surviving detection j > i.
C9_ClassifiedBeforeNextSegment ==
  \A i \in segmented, j \in segmented :
    i < j => << IMAGE_BASE, i >> \in results

\* C9 (amended): in every run the segmentation and compositing of all
\* surviving detections, in index order, is over before the first
\* classifier call, and the classification loop then covers every crop.
C9_CropLoopThenClassification ==
  /\ results # {} => (pc \notin {"loaded", "cropping"} /\ idx = Len(xyxy))
  /\ \A j \in 1..Len(crops) : \A k \in 1..Len(crops) :
       j < k => crops[j][1] < crops[k][1]
  /\ pc = "done" => saved \subseteq results

\* two survivors were segmented and cropped, then both classified
C9_Witness ==
  /\ pc = "done" /\ segmented = {0, 1}
  /\ Cardinality(saved) = 2 /\ saved \subseteq results

\* C10 (as stated): once an artifact path has been written, no later write
\* targets the same path.
C10_NeverRewritten ==
  [][ Len(crops') > Len(crops)
        => crops'[Len(crops')][3] \notin written ]_vars

\* C10 (amended): within one run no path is written twice, the name being
\* injective in the detection index, and nothing is written once the
\* classifier of that run has started; a later run over the same image
\* writes the same paths again.
C10_DistinctWithinRun ==
  /\ [](\A j \in 1..Len(crops) : \A k \in 1..Len(crops) :
          j # k => crops[j][3] # crops[k][3])
  /\ [][ Len(crops') > Len(crops) => (images = {} /\ results' = {}) ]_vars

\* two detections of one run were saved under two names
C10_Witness ==
  /\ Len(crops) = 2 /\ error = "none"
  /\ crops[1][3] # crops[2][3]
  /\ { crops[1][3], crops[2][3] } = saved

====
